---- MODULE Spec2Model ----
(***************************************************************************)
(* Raindrop.io AI tagger (src/tagger.py): the Processor                    *)
(* (process_raindrops), the Bookmark-Manager client (_make_request with    *)
(* its 429 retry policy) and the Rate Governor (RateLimiter).              *)
(*                                                                         *)
(* Spec      the Processor driving the client, one step per remote         *)
(*           exchange; backoff sleeps are logged by their length. The      *)
(*           Rate Governor only delays a request, so it and the clock      *)
(*           are left to SpecGov.                                          *)
(* SpecGov   the client and its Rate Governor against a clock, in whole    *)
(*           seconds: a sequence of logical calls through _make_request.   *)
(* SpecTree  build_collection_tree and collect_all_collection_ids applied  *)
(*           to root and nested collection lists.                          *)
(* SpecMerge the tag merge applied twice to an existing and a proposed     *)
(*           tag list.                                                     *)
(* SpecMain  main: the two collection fetches, the tree, the ID list, the  *)
(*           confirmation, then the Processor.                             *)
(***************************************************************************)
EXTENDS Integers, Sequences, FiniteSets, TLC

\* ---------------------------------------------------------------- constants
TagThreshold == 3       \* "already has 3+ tags"
PageLimit == 100        \* pagination safety limit
MaxRetries == 3         \* retries of one call on 429
BackoffBase == 10       \* (2 ** retry_count) * 10

DefaultLimit == 120     \* requests per minute, RateLimiter.limit
WindowSeconds == 60     \* "Remove requests older than 60 seconds"
WindowThreshold == 100  \* "100+ requests in the last minute"
LowRemaining == 10      \* remaining < 10
LowDelay == 2           \* time.sleep(2)

TooManyRequests == 429
OK == 200
ServerError == 500

\* ------------------------------------------------------------------- bounds
MaxColls == 2           \* collections in the ID list
MaxItems == 2           \* bookmarks the service holds
MaxPages == 1           \* non-empty pages of a short collection
MaxFaults == 2          \* calls per run that the services fail or throttle
MaxCalls == 124         \* SpecGov: requests dispatched per run
MaxEvents == 2          \* SpecGov: pauses, failed calls, rate-limit headers
MaxTreeIds == 3         \* SpecTree: collections the service lists
MaxRoots == 2           \* SpecTree: collections in the root list
MaxLen == 2             \* SpecMerge: tags in a list

Placeholder == <<"tag1", "tag2", "tag3">>

\* Tag lists the service may hold for a bookmark when the run starts.
ExistingChoices == {<< >>, <<"x", "y">>, <<"x", "y", "z">>}

\* Tag lists generate_tags may return (already stripped and lower-cased).
Proposals == {<< >>, <<"y", "a">>}

VARIABLES
    \* the remote bookmark service
    svc_tags,         \* bookmark id -> tag list stored remotely
    svc_pages,        \* collection id -> number of non-empty pages it serves
    svc_start,        \* svc_tags as it was when the run started
    \* main: arguments and locals
    collection_id,    \* --collection-id, 0 when not given (None)
    root_collections,
    child_collections,
    collection_tree,
    mpc,              \* where main is, see SpecMain
    exit_status,      \* -1 while the program runs
    \* process_raindrops: arguments and locals
    dry_run,
    collection_ids,
    pc,               \* "coll" | "fetch" | "item" | "ai" | "put" | "done"
    coll_idx,         \* 1-based position in collection_ids
    page,
    items,            \* the page being processed, as fetched
    item_pos,         \* 1-based position in items
    new_tags,
    merged_tags,
    total_raindrops,
    success_count,
    error_count,
    skipped_count,
    \* _make_request: the logical call in progress (or the last one)
    retry_count,
    http_codes,       \* status codes received by this logical call, in order
    sleeps,           \* backoff sleeps of this logical call, in order
    call_result,      \* "pending" | "returned" | "raised"
    \* environment budget
    faults,           \* calls the services may still fail or throttle
    \* RateLimiter
    limit,
    remaining,
    reset_time,
    request_times,
    headers,          \* the header map update_from_headers read last
    \* the clock and the client as SpecGov sees them
    now,              \* time.time(), in whole seconds
    gpc,              \* "enter": about to run wait_if_needed; "sent": request out
    gov_calls,        \* requests dispatched so far
    sent,             \* dispatch times of the last 60 seconds, in order
    \* history
    requested,        \* page numbers requested of the collection in progress
                      \* (or just left), in order
    halt,             \* why the paging of the collection just left stopped
    cur               \* the item taken last: what was done for it

vars == << svc_tags, svc_pages, svc_start, collection_id, root_collections,
           child_collections, collection_tree, mpc, exit_status,
           dry_run, collection_ids, pc, coll_idx, page,
           items, item_pos, new_tags, merged_tags, total_raindrops,
           success_count, error_count, skipped_count, retry_count, http_codes,
           sleeps, call_result, faults, limit, remaining, reset_time,
           request_times, headers, now, gpc, gov_calls, sent, requested, halt,
           cur >>

svcVars == << svc_tags, svc_pages, svc_start >>
mainVars == << collection_id, root_collections, child_collections,
              collection_tree, mpc, exit_status >>
argVars == << dry_run, collection_ids, mainVars >>
countVars == << total_raindrops, success_count, error_count, skipped_count >>
callVars == << retry_count, http_codes, sleeps, call_result >>
govVars == << limit, remaining, reset_time, request_times, headers, now, gpc,
              gov_calls, sent >>
procVars == << svc_tags, svc_pages, svc_start, mainVars, dry_run,
               collection_ids, pc, coll_idx,
               page, items, item_pos, new_tags, merged_tags, total_raindrops,
               success_count, error_count, skipped_count, requested, halt,
               cur >>

\* ------------------------------------------------------------------ helpers
Range(s) == { s[i] : i \in 1..Len(s) }

NoDuplicates(s) == \A i, j \in 1..Len(s) : i # j => s[i] # s[j]

RECURSIVE Pow2(_)
Pow2(n) == IF n = 0 THEN 1 ELSE 2 * Pow2(n - 1)

\* --------------------------------------------------------- the remote service
CollIds == 1..MaxColls
ItemIds == 1..MaxItems

\* How many non-empty pages a collection may hold: a short collection, one
\* whose 100th page is its first empty one, and one that still serves items
\* on its 100th page (to the Processor the same as one that never ends).
PageCounts == (0..MaxPages) \cup {PageLimit - 1, PageLimit}

LongCollections == { c \in CollIds : svc_pages[c] > MaxPages }

\* GET raindrops/{c}?perpage=50&page=p: every non-empty page lists the
\* service's bookmarks with the tags they hold at that moment.
ServicePage(c, p) ==
    IF p < svc_pages[c]
    THEN [i \in ItemIds |-> [id |-> i, tags |-> svc_tags[i]]]
    ELSE << >>

\* -------------------------------------------------------------- RateLimiter
\* A rate-limit header of a response: absent, present and not an integer,
\* or present with an integer value.
Absent == [kind |-> "absent", value |-> 0]
Bad == [kind |-> "bad", value |-> 0]
IntValue(n) == [kind |-> "int", value |-> n]

NoHeaders == [limit |-> Absent, remaining |-> Absent, reset |-> Absent]

\* update_from_headers: the three fields are read in order inside one try;
\* the first int() that raises ValueError ends the method.
UpdateFromHeaders(g, h) ==
    LET g1 == IF h.limit.kind = "int"
              THEN [g EXCEPT !.limit = h.limit.value] ELSE g
        g2 == IF h.limit.kind = "bad" THEN g1
              ELSE IF h.remaining.kind = "int"
                   THEN [g1 EXCEPT !.remaining = h.remaining.value] ELSE g1
        g3 == IF h.limit.kind = "bad" \/ h.remaining.kind = "bad" THEN g2
              ELSE IF h.reset.kind = "int"
                   THEN [g2 EXCEPT !.reset_time = h.reset.value] ELSE g2
    IN g3

\* [t for t in self.request_times if current_time - t < 60]
Recent(times, t) == SelectSeq(times, LAMBDA x : t - x < WindowSeconds)

\* Variant: the threshold test is strict.
WindowOverfull(kept) == Len(kept) > WindowThreshold

\* if len(self.request_times) >= 100
WindowFull(kept) == Len(kept) >= WindowThreshold

\* Variant: remaining = 0 counts as low too.
LowQuotaOrNone(rem) == rem < LowRemaining

\* elif self.remaining < 10 and self.remaining > 0
LowQuota(rem) == rem < LowRemaining /\ rem > 0

\* wait_time = 60 - (current_time - oldest) + 1
WaitTime(kept, t) == WindowSeconds - (t - kept[1]) + 1

\* How long wait_if_needed sleeps when called at time t.
GovernorSleep(times, rem, t) ==
    LET kept == Recent(times, t)
    IN IF WindowFull(kept)
       THEN IF WaitTime(kept, t) > 0 THEN WaitTime(kept, t) ELSE 0
       ELSE IF LowQuota(rem) THEN LowDelay ELSE 0

\* The window wait_if_needed leaves behind when called at time t.
GovernorWindow(times, rem, t) ==
    LET kept == Recent(times, t)
        woke == t + GovernorSleep(times, rem, t)
    IN IF WindowFull(kept) /\ WaitTime(kept, t) > 0
       THEN << woke >>
       ELSE Append(kept, woke)

GovInit ==
    /\ limit = DefaultLimit
    /\ remaining = DefaultLimit
    /\ reset_time = 0
    /\ request_times = << >>
    /\ headers = NoHeaders
    /\ now = 0
    /\ gpc = "enter"
    /\ gov_calls = 0
    /\ sent = << >>

\* ------------------------------------------------------------ _make_request
\* Variant: one retry more.
ShouldRetryOnceMore(code, rc) == code = TooManyRequests /\ rc <= MaxRetries

\* Variant: every failure status is retried.
ShouldRetryAnyFailure(code, rc) == rc < MaxRetries

\* if e.code == 429 and retry_count < 3
ShouldRetry(code, rc) == code = TooManyRequests /\ rc < MaxRetries

\* wait_time = (2 ** retry_count) * 10
Backoff(rc) == Pow2(rc) * BackoffBase

\* A fresh logical call enters _make_request with retry_count = 0.
BeginCall ==
    /\ retry_count' = 0
    /\ http_codes' = << >>
    /\ sleeps' = << >>
    /\ call_result' = "pending"

\* urlopen succeeded: the decoded body is returned.
MakeRequestReturn ==
    /\ call_result = "pending"
    /\ http_codes' = Append(http_codes, OK)
    /\ call_result' = "returned"
    /\ UNCHANGED << retry_count, sleeps >>

\* Status codes of an HTTPError.
FailureCodes == {TooManyRequests, ServerError}

\* HTTPError 429 with retries left: sleep, then the same call again.
MakeRequestRetry(code) ==
    /\ call_result = "pending"
    /\ ShouldRetry(code, retry_count)
    /\ http_codes' = Append(http_codes, code)
    /\ sleeps' = Append(sleeps, Backoff(retry_count))
    /\ retry_count' = retry_count + 1
    /\ UNCHANGED call_result

\* Any other HTTPError, or 429 with no retry left: raise to the caller.
MakeRequestRaise(code) ==
    /\ call_result = "pending"
    /\ ~ShouldRetry(code, retry_count)
    /\ http_codes' = Append(http_codes, code)
    /\ call_result' = "raised"
    /\ UNCHANGED << retry_count, sleeps >>

\* -------------------------------------------------------- process_raindrops
\* The services fail or throttle a bounded number of calls of a run; a call
\* already throttled may be throttled or failed again at no charge.
Fault ==
    /\ faults > 0 \/ http_codes # << >>
    /\ faults' = IF http_codes = << >> THEN faults - 1 ELSE faults

\* Variant: the skip test is strict.
AlreadyTaggedAbove(tags) == Len(tags) > TagThreshold

\* if len(existing_tags) >= 3
AlreadyTagged(tags) == Len(tags) >= TagThreshold

\* Variant: the lists are concatenated, not made a set.
MergeKeepingDuplicates(existing, new) == existing \o new

\* Variant: a tag that both lists hold is dropped.
MergeDroppingShared(existing, new) ==
    LET s == (Range(existing) \cup Range(new))
                \ (Range(existing) \cap Range(new))
    IN CHOOSE q \in [1..Cardinality(s) -> s] : Range(q) = s

\* list(set(existing_tags + new_tags)): the set of the tags of both lists,
\* listed once each in the order the set happens to iterate in. Nothing in
\* the program reads that order, so the model fixes one.
Merge(existing, new) ==
    LET s == Range(existing \o new)
    IN CHOOSE q \in [1..Cardinality(s) -> s] : Range(q) = s

NoItem == [id |-> 0, tags |-> << >>, ai |-> 0, put |-> 0, outcome |-> "none"]

\* Variant: an empty page does not end the paging.
PageExhaustedNever(its) == FALSE

\* if not items
PageExhausted(its) == its = << >>

\* Variant: a failed item ends the for loop over the page.
ItemFailedBreaks ==
    /\ error_count' = error_count + 1
    /\ cur' = [cur EXCEPT !.outcome = "error"]
    /\ item_pos' = Len(items) + 1
    /\ pc' = "item"

\* Variant: the failure is not counted.
ItemFailedUncounted ==
    /\ UNCHANGED error_count
    /\ cur' = [cur EXCEPT !.outcome = "error"]
    /\ item_pos' = item_pos + 1
    /\ pc' = "item"

\* except Exception: error_count += 1, and the for loop takes the next item.
ItemFailed ==
    /\ error_count' = error_count + 1
    /\ cur' = [cur EXCEPT !.outcome = "error"]
    /\ item_pos' = item_pos + 1
    /\ pc' = "item"

\* Variant: leaving a collection also passes over the next one.
BreakSkipping(why) ==
    /\ halt' = why
    /\ coll_idx' = coll_idx + 2
    /\ pc' = "coll"

\* Variant: the for loop does not move on to the next collection.
BreakStays(why) ==
    /\ halt' = why
    /\ coll_idx' = coll_idx
    /\ pc' = "coll"

\* Leave the while loop of the current collection.
Break(why) ==
    /\ halt' = why
    /\ coll_idx' = coll_idx + 1
    /\ pc' = "coll"

\* for coll_idx, coll_id in enumerate(collection_ids, 1): page = 0, first fetch.
BeginCollection ==
    /\ pc = "coll"
    /\ coll_idx <= Len(collection_ids)
    /\ page' = 0
    /\ requested' = << 0 >>
    /\ halt' = "none"
    /\ BeginCall
    /\ pc' = "fetch"
    /\ UNCHANGED << govVars, svcVars, argVars, coll_idx, items, item_pos, new_tags,
                    merged_tags, countVars, faults, cur >>

\* The for loop is exhausted: return the four counters.
Return ==
    /\ pc = "coll"
    /\ coll_idx > Len(collection_ids)
    /\ pc' = "done"
    /\ UNCHANGED << govVars, svcVars, argVars, coll_idx, page, items, item_pos,
                    new_tags, merged_tags, countVars, callVars, faults,
                    requested, halt, cur >>

\* get_raindrops returns a page with items.
FetchPage ==
    /\ pc = "fetch"
    /\ ~PageExhausted(ServicePage(collection_ids[coll_idx], page))
    /\ MakeRequestReturn
    /\ items' = ServicePage(collection_ids[coll_idx], page)
    /\ item_pos' = 1
    /\ pc' = "item"
    /\ UNCHANGED << govVars, svcVars, argVars, coll_idx, page, new_tags,
                    merged_tags, countVars, faults, requested, halt, cur >>

\* get_raindrops returns an empty page: break.
FetchEmpty ==
    /\ pc = "fetch"
    /\ PageExhausted(ServicePage(collection_ids[coll_idx], page))
    /\ MakeRequestReturn
    /\ items' = ServicePage(collection_ids[coll_idx], page)
    /\ Break("empty")
    /\ UNCHANGED << govVars, svcVars, argVars, page, item_pos, new_tags,
                    merged_tags, countVars, faults, requested, cur >>

\* 429 on a GET or a PUT with retries left.
Throttled ==
    /\ pc \in {"fetch", "put"}
    /\ Fault
    /\ \E code \in FailureCodes : MakeRequestRetry(code)
    /\ UNCHANGED << govVars, svcVars, argVars, pc, coll_idx, page, items, item_pos,
                    new_tags, merged_tags, countVars, requested, halt, cur >>

\* Variant: a failed page fetch is counted as an error.
FetchRaiseCounted ==
    /\ pc = "fetch"
    /\ Fault
    /\ \E code \in FailureCodes : MakeRequestRaise(code)
    /\ Break("error")
    /\ error_count' = error_count + 1
    /\ UNCHANGED << govVars, svcVars, argVars, page, items, item_pos, new_tags,
                    merged_tags, total_raindrops, success_count,
                    skipped_count, requested, cur >>

\* get_raindrops raises: the except clause prints and breaks.
FetchRaise ==
    /\ pc = "fetch"
    /\ Fault
    /\ \E code \in FailureCodes : MakeRequestRaise(code)
    /\ Break("error")
    /\ UNCHANGED << govVars, svcVars, argVars, page, items, item_pos, new_tags,
                    merged_tags, countVars, requested, cur >>

\* Variant: the limit test is strict.
PageLimitPassed(p) == p > PageLimit

\* if page >= 100: the safety limit.
PageLimitReached(p) == p >= PageLimit

\* The for loop over the page is exhausted: page += 1, then the safety limit.
NextPage ==
    /\ pc = "item"
    /\ item_pos > Len(items)
    /\ page' = page + 1
    /\ IF PageLimitReached(page + 1)
       THEN /\ Break("limit")
            /\ UNCHANGED << requested, callVars >>
       ELSE /\ requested' = Append(requested, page + 1)
            /\ BeginCall
            /\ pc' = "fetch"
            /\ UNCHANGED << coll_idx, halt >>
    /\ UNCHANGED << govVars, svcVars, argVars, items, item_pos, new_tags, merged_tags,
                    countVars, faults, cur >>

\* An item with 3+ tags: skipped_count += 1; continue.
SkipItem ==
    /\ pc = "item"
    /\ item_pos <= Len(items)
    /\ AlreadyTagged(items[item_pos].tags)
    /\ total_raindrops' = total_raindrops + 1
    /\ skipped_count' = skipped_count + 1
    /\ cur' = [id |-> items[item_pos].id, tags |-> items[item_pos].tags,
               ai |-> 0, put |-> 0, outcome |-> "skipped"]
    /\ item_pos' = item_pos + 1
    /\ UNCHANGED << govVars, svcVars, argVars, pc, coll_idx, page, items, new_tags,
                    merged_tags, success_count, error_count, callVars, faults,
                    requested, halt >>

\* Variant: the simulated item is not counted as a success.
SimulateItemUncounted ==
    /\ pc = "item"
    /\ item_pos <= Len(items)
    /\ ~AlreadyTagged(items[item_pos].tags)
    /\ dry_run
    /\ total_raindrops' = total_raindrops + 1
    /\ new_tags' = Placeholder
    /\ cur' = [id |-> items[item_pos].id, tags |-> items[item_pos].tags,
               ai |-> 0, put |-> 0, outcome |-> "success"]
    /\ item_pos' = item_pos + 1
    /\ UNCHANGED << govVars, svcVars, argVars, pc, coll_idx, page, items, merged_tags,
                    skipped_count, success_count, error_count, callVars,
                    faults, requested, halt >>

\* Dry run: mock tags, no remote call, success_count += 1.
SimulateItem ==
    /\ pc = "item"
    /\ item_pos <= Len(items)
    /\ ~AlreadyTagged(items[item_pos].tags)
    /\ dry_run
    /\ total_raindrops' = total_raindrops + 1
    /\ new_tags' = Placeholder
    /\ success_count' = success_count + 1
    /\ cur' = [id |-> items[item_pos].id, tags |-> items[item_pos].tags,
               ai |-> 0, put |-> 0, outcome |-> "success"]
    /\ item_pos' = item_pos + 1
    /\ UNCHANGED << govVars, svcVars, argVars, pc, coll_idx, page, items, merged_tags,
                    skipped_count, error_count, callVars, faults, requested,
                    halt >>

\* Variant: the item goes to generate_tags in a dry run too.
TakeItemInDryRun ==
    /\ pc = "item"
    /\ item_pos <= Len(items)
    /\ ~AlreadyTagged(items[item_pos].tags)
    /\ total_raindrops' = total_raindrops + 1
    /\ cur' = [id |-> items[item_pos].id, tags |-> items[item_pos].tags,
               ai |-> 1, put |-> 0, outcome |-> "pending"]
    /\ pc' = "ai"
    /\ UNCHANGED << govVars, svcVars, argVars, coll_idx, page, items, item_pos,
                    new_tags, merged_tags, success_count, error_count,
                    skipped_count, callVars, faults, requested, halt >>

\* Live run: the item goes to generate_tags.
TakeItem ==
    /\ pc = "item"
    /\ item_pos <= Len(items)
    /\ ~AlreadyTagged(items[item_pos].tags)
    /\ ~dry_run
    /\ total_raindrops' = total_raindrops + 1
    /\ cur' = [id |-> items[item_pos].id, tags |-> items[item_pos].tags,
               ai |-> 1, put |-> 0, outcome |-> "pending"]
    /\ pc' = "ai"
    /\ UNCHANGED << govVars, svcVars, argVars, coll_idx, page, items, item_pos,
                    new_tags, merged_tags, success_count, error_count,
                    skipped_count, callVars, faults, requested, halt >>

\* generate_tags returns: merge, then call update_raindrop.
GenerateTags ==
    /\ pc = "ai"
    /\ \E reply \in Proposals :
          /\ new_tags' = reply
          /\ merged_tags' = Merge(items[item_pos].tags, reply)
    /\ cur' = [cur EXCEPT !.put = @ + 1]
    /\ BeginCall
    /\ pc' = "put"
    /\ UNCHANGED << govVars, svcVars, argVars, coll_idx, page, items, item_pos,
                    countVars, faults, requested, halt >>

\* generate_tags raises: error_count += 1, next item.
GenerateTagsRaise ==
    /\ pc = "ai"
    /\ faults > 0
    /\ faults' = faults - 1
    /\ ItemFailed
    /\ UNCHANGED << govVars, svcVars, argVars, coll_idx, page, items, new_tags,
                    merged_tags, total_raindrops, success_count,
                    skipped_count, callVars, requested, halt >>

\* update_raindrop returns: the service now holds the merged list.
UpdateRaindrop ==
    /\ pc = "put"
    /\ MakeRequestReturn
    /\ svc_tags' = [svc_tags EXCEPT ![items[item_pos].id] = merged_tags]
    /\ success_count' = success_count + 1
    /\ cur' = [cur EXCEPT !.outcome = "success"]
    /\ item_pos' = item_pos + 1
    /\ pc' = "item"
    /\ UNCHANGED << govVars, svc_pages, svc_start, argVars, coll_idx, page,
                    items, new_tags, merged_tags, total_raindrops, error_count,
                    skipped_count, faults, requested, halt >>

\* update_raindrop raises: error_count += 1, next item.
UpdateRaise ==
    /\ pc = "put"
    /\ Fault
    /\ \E code \in FailureCodes : MakeRequestRaise(code)
    /\ ItemFailed
    /\ UNCHANGED << govVars, svcVars, argVars, coll_idx, page, items, new_tags,
                    merged_tags, total_raindrops, success_count,
                    skipped_count, requested, halt >>

\* process_raindrops is entered: counters at zero, no call made yet.
ProcInit ==
    /\ pc = "coll"
    /\ coll_idx = 1
    /\ page = 0
    /\ items = << >>
    /\ item_pos = 1
    /\ new_tags = << >>
    /\ merged_tags = << >>
    /\ total_raindrops = 0
    /\ success_count = 0
    /\ error_count = 0
    /\ skipped_count = 0
    /\ retry_count = 0
    /\ http_codes = << >>
    /\ sleeps = << >>
    /\ call_result = "returned"
    /\ requested = << >>
    /\ halt = "none"
    /\ cur = NoItem

\* process_raindrops was called: main is past its set-up and has not exited.
MainIdle ==
    /\ collection_id = 0
    /\ root_collections = << >>
    /\ child_collections = << >>
    /\ collection_tree = << >>
    /\ mpc = "process"
    /\ exit_status = -1

Init ==
    /\ dry_run \in BOOLEAN
    /\ collection_ids = [i \in CollIds |-> i]
    /\ svc_pages \in [CollIds -> PageCounts]
    /\ svc_tags \in [ItemIds -> ExistingChoices]
    \* at most one bookmark starts with fewer than 3 tags
    /\ Cardinality({ i \in ItemIds : Len(svc_tags[i]) < TagThreshold }) <= 1
    \* at most one collection runs to 99 pages or more; the others are then
    \* empty and the service holds tagged bookmarks only
    /\ Cardinality(LongCollections) <= 1
    /\ LongCollections # {} =>
          /\ \A i \in ItemIds : Len(svc_tags[i]) >= TagThreshold
          /\ \A c \in CollIds \ LongCollections : svc_pages[c] = 0
    /\ svc_start = svc_tags
    /\ MainIdle
    /\ ProcInit
    /\ faults = MaxFaults
    /\ GovInit

Next ==
    \/ BeginCollection
    \/ Return
    \/ FetchPage
    \/ FetchEmpty
    \/ Throttled
    \/ FetchRaise
    \/ NextPage
    \/ SkipItem
    \/ SimulateItem
    \/ TakeItem
    \/ GenerateTags
    \/ GenerateTagsRaise
    \/ UpdateRaindrop
    \/ UpdateRaise

Spec == Init /\ [][Next]_vars

\* The Processor is one sequential thread: whenever it has a next step it
\* takes it. Every remote call ends (urlopen has a timeout of 30 seconds)
\* and every sleep is of a finite length.
\* Here the services fail or throttle one call fewer than in Spec.
InitFair ==
    /\ dry_run \in BOOLEAN
    /\ collection_ids = [i \in CollIds |-> i]
    /\ svc_pages \in [CollIds -> PageCounts]
    /\ svc_tags \in [ItemIds -> ExistingChoices]
    /\ Cardinality({ i \in ItemIds : Len(svc_tags[i]) < TagThreshold }) <= 1
    /\ Cardinality(LongCollections) <= 1
    /\ LongCollections # {} =>
          /\ \A i \in ItemIds : Len(svc_tags[i]) >= TagThreshold
          /\ \A c \in CollIds \ LongCollections : svc_pages[c] = 0
    /\ svc_start = svc_tags
    /\ MainIdle
    /\ ProcInit
    /\ faults = MaxFaults - 1
    /\ GovInit

SpecFair == InitFair /\ [][Next]_vars /\ WF_vars(Next)

\* ------------------------------------------------- the client against a clock
\* Rate-limit headers a successful response may carry.
HeaderChoices ==
    { NoHeaders,
      [limit |-> Absent, remaining |-> IntValue(5), reset |-> Absent],
      [limit |-> IntValue(DefaultLimit), remaining |-> IntValue(0),
       reset |-> IntValue(WindowSeconds)],
      [limit |-> Bad, remaining |-> IntValue(5), reset |-> Absent] }

\* Seconds that may pass between two calls of the client.
ElapseChoices == {1, WindowSeconds - 1}

\* The environment acts (a pause, a failed call, rate-limit headers) a
\* bounded number of times, and only while the window is at one of its
\* edges: one entry, one short of the threshold, or at the threshold.
AtEdge == Len(request_times) \in {1, WindowThreshold - 1, WindowThreshold}

Event == faults > 0 /\ AtEdge /\ faults' = faults - 1

GovFault == IF http_codes = << >> THEN Event ELSE UNCHANGED faults

Governor == [limit |-> limit, remaining |-> remaining, reset_time |-> reset_time]

ReadHeaders(h) ==
    /\ limit' = UpdateFromHeaders(Governor, h).limit
    /\ remaining' = UpdateFromHeaders(Governor, h).remaining
    /\ reset_time' = UpdateFromHeaders(Governor, h).reset_time
    /\ headers' = h

\* _make_request is entered (by a caller, or by itself on a retry):
\* wait_if_needed runs, then the request goes out.
WaitIfNeeded ==
    /\ gpc = "enter"
    /\ gov_calls < MaxCalls
    /\ IF call_result = "pending" THEN UNCHANGED callVars ELSE BeginCall
    /\ request_times' = GovernorWindow(request_times, remaining, now)
    /\ now' = now + GovernorSleep(request_times, remaining, now)
    /\ sent' = Append(Recent(sent, now'), now')
    /\ gov_calls' = gov_calls + 1
    /\ gpc' = "sent"
    /\ UNCHANGED << procVars, faults, limit, remaining, reset_time, headers >>

\* The response is a success: headers are read, the body is returned.
GovReturn ==
    /\ gpc = "sent"
    /\ MakeRequestReturn
    /\ \E h \in HeaderChoices :
          /\ ReadHeaders(h)
          /\ IF h = NoHeaders THEN UNCHANGED faults ELSE Event
    /\ gpc' = "enter"
    /\ UNCHANGED << procVars, request_times, now, gov_calls, sent >>

\* The response is 429 with retries left: backoff sleep, then re-enter.
GovRetry ==
    /\ gpc = "sent"
    /\ GovFault
    /\ \E code \in FailureCodes : MakeRequestRetry(code)
    /\ ReadHeaders(NoHeaders)
    /\ now' = now + Backoff(retry_count)
    /\ gpc' = "enter"
    /\ UNCHANGED << procVars, request_times, gov_calls, sent >>

\* The response is another failure, or 429 after the third retry: raise.
GovRaise ==
    /\ gpc = "sent"
    /\ GovFault
    /\ \E code \in FailureCodes : MakeRequestRaise(code)
    /\ ReadHeaders(NoHeaders)
    /\ gpc' = "enter"
    /\ UNCHANGED << procVars, request_times, now, gov_calls, sent >>

\* Time passes between two calls (AI call, pauses, printing).
Elapse ==
    /\ gpc = "enter"
    /\ call_result # "pending"
    /\ Event
    /\ \E d \in ElapseChoices : now' = now + d
    /\ UNCHANGED << procVars, callVars, limit, remaining, reset_time,
                    request_times, headers, gpc, gov_calls, sent >>

InitGov ==
    /\ dry_run = FALSE
    /\ collection_ids = << >>
    /\ svc_pages = [c \in CollIds |-> 0]
    /\ svc_tags = [i \in ItemIds |-> << >>]
    /\ svc_start = svc_tags
    /\ MainIdle
    /\ ProcInit
    /\ faults = MaxEvents
    /\ GovInit

NextGov ==
    \/ WaitIfNeeded
    \/ GovReturn
    \/ GovRetry
    \/ GovRaise
    \/ Elapse

SpecGov == InitGov /\ [][NextGov]_vars


\* ------------------------------------------------------- the collection tree
\* A collection as the service lists it: a root is [id |-> n]; a nested one
\* is [id |-> n, parent |-> p], p being a bare identifier (form "id") or a
\* reference object holding "$id" (form "dict"). The identifier 0 stands for
\* a value Python takes as false: no parent field, None, 0, or a reference
\* object with no "$id".
Truthy(parent) == parent.form = "dict" \/ parent.id # 0

\* parent.get("$id") if isinstance(parent, dict) else parent
ParentId(parent) == parent.id

\* if parent: ... if parent_id: the child enters children_map
Linked(child) == Truthy(child.parent) /\ ParentId(child.parent) # 0

\* children_map: parent_id -> the children naming it, in input order
ChildrenMap(children) ==
    [ p \in { ParentId(children[i].parent) :
                 i \in { j \in 1..Len(children) : Linked(children[j]) } }
        |-> SelectSeq(children,
                      LAMBDA c : Linked(c) /\ ParentId(c.parent) = p) ]

\* children_map.get(coll_id, [])
ChildrenOf(cmap, id) == IF id \in DOMAIN cmap THEN cmap[id] ELSE << >>

\* add_children: the collection with its children list, recursively
RECURSIVE AddChildren(_, _)
AddChildren(collection, cmap) ==
    LET kids == ChildrenOf(cmap, collection.id)
    IN [id |-> collection.id,
        children |-> [i \in 1..Len(kids) |-> AddChildren(kids[i], cmap)]]

\* tree = [add_children(coll) for coll in root_collections]
BuildTree(roots, children) ==
    [i \in 1..Len(roots) |-> AddChildren(roots[i], ChildrenMap(children))]

\* Variant: the children of a collection are appended after its siblings.
RECURSIVE CollectLevelByLevel(_)
CollectLevelByLevel(collections) ==
    IF collections = << >> THEN << >>
    ELSE LET coll == Head(collections)
         IN << coll.id >> \o CollectLevelByLevel(Tail(collections) \o coll.children)

\* Variant: the children lists are not followed.
RECURSIVE CollectRootsOnly(_)
CollectRootsOnly(collections) ==
    IF collections = << >> THEN << >>
    ELSE << Head(collections).id >> \o CollectRootsOnly(Tail(collections))

\* collect_all_collection_ids: the ID of each collection, then those of its
\* children, then the next collection of the list.
RECURSIVE CollectAllCollectionIds(_)
CollectAllCollectionIds(collections) ==
    IF collections = << >> THEN << >>
    ELSE LET coll == Head(collections)
         IN << coll.id >>
            \o (IF coll.children # << >>
                THEN CollectAllCollectionIds(coll.children) ELSE << >>)
            \o CollectAllCollectionIds(Tail(collections))

\* Identifiers the service may give its collections.
TreeIds == 1..MaxTreeIds

\* The root list and the nested list that name their collections q[1], q[2],
\* ..., the nested ones with the parent fields ps[1], ps[2], ...
RootList(q) == [i \in DOMAIN q |-> [id |-> q[i]]]
NestedList(q, ps) == [i \in DOMAIN q |-> [id |-> q[i], parent |-> ps[i]]]

\* Parent fields of a nested collection: falsy, a reference object without
\* "$id", or a bare identifier or reference object naming some collection
\* (itself, another, or one the service does not list).
ParentChoices ==
    { [form |-> "id", id |-> 0], [form |-> "dict", id |-> 0] }
    \cup { [form |-> f, id |-> n] : f \in {"id", "dict"}, n \in TreeIds }

\* The m collections of the service, listed with identifiers going up or
\* going down: the program compares identifiers only for equality.
Namings(m) == { [i \in 1..m |-> i], [i \in 1..m |-> m + 1 - i] }

\* The service lists m collections with unique identifiers: the first r in
\* its root list, the others in its nested list, each with some parent field.
TreeInit ==
    /\ \E m \in 0..MaxTreeIds, r \in 0..MaxRoots :
          /\ r <= m
          /\ \E q \in Namings(m), ps \in [1..(m - r) -> ParentChoices] :
                /\ root_collections = RootList(SubSeq(q, 1, r))
                /\ child_collections = NestedList(SubSeq(q, r + 1, m), ps)
    /\ collection_tree = << >>
    /\ collection_ids = << >>
    /\ collection_id = 0
    /\ exit_status = -1

\* collection_tree = build_collection_tree(root_collections, child_collections)
BuildCollectionTree ==
    /\ mpc = "tree"
    /\ collection_tree' = BuildTree(root_collections, child_collections)
    /\ mpc' = "ids"
    /\ UNCHANGED << govVars, svcVars, dry_run, collection_ids, collection_id,
                    root_collections, child_collections, exit_status, pc,
                    coll_idx, page, items, item_pos, new_tags, merged_tags,
                    countVars, callVars, faults, requested, halt, cur >>

\* collection_ids = [collection_id] if collection_id, else the flattened tree
DetermineIds ==
    /\ mpc = "ids"
    /\ collection_ids' = IF collection_id # 0 THEN << collection_id >>
                         ELSE CollectAllCollectionIds(collection_tree)
    /\ mpc' = "confirm"
    /\ UNCHANGED << govVars, svcVars, dry_run, collection_id, root_collections,
                    child_collections, collection_tree, exit_status, pc,
                    coll_idx, page, items, item_pos, new_tags, merged_tags,
                    countVars, callVars, faults, requested, halt, cur >>

InitTree ==
    /\ dry_run = TRUE
    /\ svc_pages = [c \in TreeIds |-> 0]
    /\ svc_tags = [i \in ItemIds |-> << >>]
    /\ svc_start = svc_tags
    /\ TreeInit
    /\ mpc = "tree"
    /\ ProcInit
    /\ faults = 0
    /\ GovInit

NextTree ==
    \/ BuildCollectionTree
    \/ DetermineIds

SpecTree == InitTree /\ [][NextTree]_vars


\* ---------------------------------------------------------------------- main
\* The identifiers of a set, in increasing order.
Ascending(S) ==
    CHOOSE q \in [1..Cardinality(S) -> S] :
        \A i, j \in DOMAIN q : i < j => q[i] < q[j]

\* Root lists the service may return to main: collections the item service
\* knows, in increasing order of identifier.
MainRootLists == { RootList(Ascending(S)) : S \in SUBSET CollIds }

\* Nested lists it may return then: further collections in increasing order,
\* each with no parent or with a root as its parent.
MainNestedLists(roots) ==
    LET rootIds == { roots[i].id : i \in DOMAIN roots }
        parents == { [form |-> "id", id |-> n] : n \in {0} \cup rootIds }
    IN UNION { { NestedList(Ascending(T), ps) :
                    ps \in [1..Cardinality(T) -> parents] } :
               T \in SUBSET (CollIds \ rootIds) }

\* root_collections = raindrop_api.get_root_collections(): the call starts.
GetRootCollections ==
    /\ mpc = "start"
    /\ BeginCall
    /\ mpc' = "roots"
    /\ UNCHANGED << govVars, svcVars, dry_run, collection_ids, collection_id,
                    root_collections, child_collections, collection_tree,
                    exit_status, pc, coll_idx, page, items, item_pos,
                    new_tags, merged_tags, countVars, faults, requested,
                    halt, cur >>

\* get_root_collections returns result.get("items", []).
RootsReturn ==
    /\ mpc = "roots"
    /\ MakeRequestReturn
    /\ root_collections' \in MainRootLists
    /\ mpc' = "nested"
    /\ UNCHANGED << govVars, svcVars, dry_run, collection_ids, collection_id,
                    child_collections, collection_tree, exit_status, pc,
                    coll_idx, page, items, item_pos, new_tags, merged_tags,
                    countVars, faults, requested, halt, cur >>

\* child_collections = raindrop_api.get_child_collections(): the call starts.
GetChildCollections ==
    /\ mpc = "nested"
    /\ BeginCall
    /\ mpc' = "children"
    /\ UNCHANGED << govVars, svcVars, dry_run, collection_ids, collection_id,
                    root_collections, child_collections, collection_tree,
                    exit_status, pc, coll_idx, page, items, item_pos,
                    new_tags, merged_tags, countVars, faults, requested,
                    halt, cur >>

\* get_child_collections returns result.get("items", []).
ChildrenReturn ==
    /\ mpc = "children"
    /\ MakeRequestReturn
    /\ child_collections' \in MainNestedLists(root_collections)
    /\ mpc' = "tree"
    /\ UNCHANGED << govVars, svcVars, dry_run, collection_ids, collection_id,
                    root_collections, collection_tree, exit_status, pc,
                    coll_idx, page, items, item_pos, new_tags, merged_tags,
                    countVars, faults, requested, halt, cur >>

\* 429 on a collection fetch with retries left.
CollectionsThrottled ==
    /\ mpc \in {"roots", "children"}
    /\ Fault
    /\ \E code \in FailureCodes : MakeRequestRetry(code)
    /\ UNCHANGED << govVars, svcVars, argVars, pc, coll_idx, page, items,
                    item_pos, new_tags, merged_tags, countVars, requested,
                    halt, cur >>

\* Variant: after a failed fetch main goes on with the lists it has.
FetchFailedGoesOn ==
    /\ mpc' = "tree"
    /\ UNCHANGED exit_status

\* except Exception: print the error, sys.exit(1).
FetchFailed ==
    /\ mpc' = "exit"
    /\ exit_status' = 1

\* A collection fetch raises.
CollectionsRaise ==
    /\ mpc \in {"roots", "children"}
    /\ Fault
    /\ \E code \in FailureCodes : MakeRequestRaise(code)
    /\ FetchFailed
    /\ UNCHANGED << govVars, svcVars, dry_run, collection_ids, collection_id,
                    root_collections, child_collections, collection_tree, pc,
                    coll_idx, page, items, item_pos, new_tags, merged_tags,
                    countVars, requested, halt, cur >>

\* Answers to the confirmation prompt of a live run.
Answers == {"yes", "no"}

\* if not dry_run: confirm = input(...); anything but yes is sys.exit(0).
Confirm ==
    /\ mpc = "confirm"
    /\ \E confirm \in Answers :
          IF dry_run \/ confirm = "yes"
          THEN mpc' = "process" /\ UNCHANGED exit_status
          ELSE mpc' = "exit" /\ exit_status' = 0
    /\ UNCHANGED << govVars, svcVars, dry_run, collection_ids, collection_id,
                    root_collections, child_collections, collection_tree, pc,
                    coll_idx, page, items, item_pos, new_tags, merged_tags,
                    countVars, callVars, faults, requested, halt, cur >>

\* process_raindrops has returned: the summary is printed and main ends.
Summary ==
    /\ mpc = "process"
    /\ pc = "done"
    /\ mpc' = "exit"
    /\ exit_status' = 0
    /\ UNCHANGED << govVars, svcVars, dry_run, collection_ids, collection_id,
                    root_collections, child_collections, collection_tree, pc,
                    coll_idx, page, items, item_pos, new_tags, merged_tags,
                    countVars, callVars, faults, requested, halt, cur >>

\* main is entered with valid arguments; the item service lists its
\* bookmarks, the first with two tags and the others with three, on one page
\* of every collection, and fails or throttles one call of the run.
InitMain ==
    /\ dry_run \in BOOLEAN
    /\ collection_id \in {0, 1}
    /\ root_collections = << >>
    /\ child_collections = << >>
    /\ collection_tree = << >>
    /\ collection_ids = << >>
    /\ mpc = "start"
    /\ exit_status = -1
    /\ svc_pages = [c \in CollIds |-> 1]
    /\ svc_tags = [i \in ItemIds |-> IF i = 1 THEN <<"x", "y">>
                                              ELSE <<"x", "y", "z">>]
    /\ svc_start = svc_tags
    /\ ProcInit
    /\ faults = 1
    /\ GovInit

NextMain ==
    \/ GetRootCollections
    \/ RootsReturn
    \/ GetChildCollections
    \/ ChildrenReturn
    \/ CollectionsThrottled
    \/ CollectionsRaise
    \/ BuildCollectionTree
    \/ DetermineIds
    \/ Confirm
    \/ mpc = "process" /\ BeginCollection
    \/ mpc = "process" /\ Return
    \/ mpc = "process" /\ FetchPage
    \/ mpc = "process" /\ FetchEmpty
    \/ mpc = "process" /\ Throttled
    \/ mpc = "process" /\ FetchRaise
    \/ mpc = "process" /\ NextPage
    \/ mpc = "process" /\ SkipItem
    \/ mpc = "process" /\ SimulateItem
    \/ mpc = "process" /\ TakeItem
    \/ mpc = "process" /\ GenerateTags
    \/ mpc = "process" /\ GenerateTagsRaise
    \/ mpc = "process" /\ UpdateRaindrop
    \/ mpc = "process" /\ UpdateRaise
    \/ Summary

SpecMain == InitMain /\ [][NextMain]_vars


\* ------------------------------------------------------------- the tag merge
\* Tag lists of at most MaxLen tags, repeats allowed.
TagLists == UNION { [1..n -> {"x", "y", "a"}] : n \in 0..MaxLen }

\* merged_tags = list(set(existing_tags + new_tags)) for the item at hand.
MergeTags ==
    /\ mpc = "merge"
    /\ merged_tags' = Merge(items[item_pos].tags, new_tags)
    /\ mpc' = "merged"
    /\ UNCHANGED << govVars, svcVars, dry_run, collection_ids, collection_id,
                    root_collections, child_collections, collection_tree,
                    exit_status, pc, coll_idx, page, items, item_pos,
                    new_tags, countVars, callVars, faults, requested, halt,
                    cur >>

\* The item comes back holding the merged list and the same proposal is
\* merged into it again.
MergeAgain ==
    /\ mpc = "merged"
    /\ items' = [items EXCEPT ![item_pos].tags = merged_tags]
    /\ merged_tags' = Merge(merged_tags, new_tags)
    /\ mpc' = "remerged"
    /\ UNCHANGED << govVars, svcVars, dry_run, collection_ids, collection_id,
                    root_collections, child_collections, collection_tree,
                    exit_status, pc, coll_idx, page, item_pos, new_tags,
                    countVars, callVars, faults, requested, halt, cur >>

InitMerge ==
    /\ dry_run = FALSE
    /\ collection_ids = << 1 >>
    /\ svc_pages = [c \in CollIds |-> 0]
    /\ svc_tags = [i \in ItemIds |-> << >>]
    /\ svc_start = svc_tags
    /\ collection_id = 0
    /\ root_collections = << >>
    /\ child_collections = << >>
    /\ collection_tree = << >>
    /\ exit_status = -1
    /\ mpc = "merge"
    /\ pc = "ai"
    /\ coll_idx = 1
    /\ page = 0
    /\ \E existing \in TagLists : items = << [id |-> 1, tags |-> existing] >>
    /\ item_pos = 1
    /\ new_tags \in TagLists
    /\ merged_tags = << >>
    /\ total_raindrops = 1
    /\ success_count = 0
    /\ error_count = 0
    /\ skipped_count = 0
    /\ retry_count = 0
    /\ http_codes = << >>
    /\ sleeps = << >>
    /\ call_result = "returned"
    /\ requested = << 0 >>
    /\ halt = "none"
    /\ cur = NoItem
    /\ faults = 0
    /\ GovInit

NextMerge ==
    \/ MergeTags
    \/ MergeAgain

SpecMerge == InitMerge /\ [][NextMerge]_vars


\* ===================================================================== claims

\* The collection whose paging is in progress or was left last.
PagedColl ==
    collection_ids[IF pc \in {"coll", "done"} THEN coll_idx - 1 ELSE coll_idx]

\* The position (1-based) of that collection's first empty page.
FirstEmpty == svc_pages[PagedColl] + 1

\* --------------------------------------------------------------------- C1
\* C1: an item fetched with 3 or more tags gets no generate_tags call and no
\* update_raindrop call, in a live run and in a dry run alike: the step that
\* takes it adds one to total and one to skipped, changes no other counter
\* and no remote tag list, and leaves the Processor at the next item; no item
\* with 3 or more tags is ever in the AI call or in the write.
SkippedItemUntouched ==
    /\ [](pc \in {"ai", "put"} => Len(items[item_pos].tags) < 3)
    /\ [][ (pc = "item" /\ item_pos <= Len(items)
               /\ Len(items[item_pos].tags) >= 3)
           => /\ total_raindrops' = total_raindrops + 1
              /\ skipped_count' = skipped_count + 1
              /\ success_count' = success_count
              /\ error_count' = error_count
              /\ svc_tags' = svc_tags
              /\ http_codes' = http_codes
              /\ cur'.ai = 0 /\ cur'.put = 0
              /\ pc' = "item" /\ item_pos' = item_pos + 1 ]_vars

\* A live run has skipped a tagged item on a page of the second collection.
SkippedItemSeen ==
    /\ ~dry_run
    /\ coll_idx = 2
    /\ pc = "item"
    /\ cur.outcome = "skipped"
    /\ Len(cur.tags) >= 3

\* --------------------------------------------------------------------- C2
\* C2: in a live run, when the write of an item with fewer than 3 tags
\* returns, it was the only update_raindrop call for the item, the list it
\* carried holds exactly the tags of the existing and of the proposed list,
\* each once, the service now stores that list, and success grows by one.
MergedTagsWritten ==
    /\ [](cur.put <= 1)
    /\ [][ (pc = "put" /\ call_result' = "returned")
           => /\ ~dry_run
              /\ Len(items[item_pos].tags) < 3
              /\ cur.put = 1 /\ cur'.put = 1
              /\ Range(merged_tags) =
                    Range(items[item_pos].tags) \cup Range(new_tags)
              /\ NoDuplicates(merged_tags)
              /\ svc_tags'[items[item_pos].id] = merged_tags
              /\ success_count' = success_count + 1
              /\ error_count' = error_count ]_vars

\* A write has merged a proposal that shares a tag with the existing list.
OverlappingMergeWritten ==
    /\ cur.outcome = "success"
    /\ ~dry_run
    /\ cur.tags = <<"x", "y">>
    /\ new_tags = <<"y", "a">>
    /\ Range(svc_tags[cur.id]) = {"x", "y", "a"}
    /\ Len(svc_tags[cur.id]) = 3

\* --------------------------------------------------------------------- C3
\* C3: when generate_tags raises, or update_raindrop raises, errors grows by
\* one, success does not change, the remote tags stay as they were, and the
\* Processor is at the next item of the same page of the same collection;
\* when it was generate_tags that raised, no write was issued for the item.
ItemFailureIsolated ==
    [][ ((pc = "ai" /\ pc' # "put") \/ (pc = "put" /\ call_result' = "raised"))
        => /\ error_count' = error_count + 1
           /\ success_count' = success_count
           /\ total_raindrops' = total_raindrops
           /\ svc_tags' = svc_tags
           /\ pc' = "item"
           /\ item_pos' = item_pos + 1
           /\ items' = items /\ page' = page /\ coll_idx' = coll_idx
           /\ (pc = "ai" => cur'.put = 0) ]_vars

\* After a failed item the run went on and skipped the next item of the page.
WentOnAfterFailure ==
    /\ error_count = 1
    /\ cur.outcome = "skipped"
    /\ item_pos = 3
    /\ total_raindrops = 2

\* --------------------------------------------------------------------- C4
\* C4: one logical call is dispatched at most 4 times; three 429 answers and
\* then a success return the result after backoff sleeps of 10, 20 and 40
\* seconds, in that order; a fourth 429 in a row raises.
RetrySequence ==
    /\ Len(http_codes) + (IF gpc = "sent" THEN 1 ELSE 0) <= 4
    /\ http_codes = <<429, 429, 429, 200>>
          => call_result = "returned" /\ sleeps = <<10, 20, 40>>
    /\ http_codes = <<429, 429, 429, 429>>
          => call_result = "raised" /\ sleeps = <<10, 20, 40>>

\* A call has succeeded on its third retry.
ThirdRetrySucceeded ==
    /\ http_codes = <<429, 429, 429, 200>>
    /\ call_result = "returned"
    /\ sleeps = <<10, 20, 40>>

\* --------------------------------------------------------------------- C5
\* C5: a failure status other than 429 is the last answer of its call: the
\* call has raised, nothing is in flight, and the only backoff sleeps are
\* those of the 429 answers before it.
OtherFailureRaisesAtOnce ==
    \A i \in 1..Len(http_codes) :
        http_codes[i] \notin {200, 429}
            => /\ i = Len(http_codes)
               /\ call_result = "raised"
               /\ gpc = "enter"
               /\ Len(sleeps) = i - 1

\* A call was throttled once and then failed with another status.
FailedDuringRetry ==
    /\ http_codes = <<429, 500>>
    /\ call_result = "raised"
    /\ sleeps = <<10>>

\* --------------------------------------------------------------------- C6
\* C6: no more than 120 requests are dispatched within any 60 seconds (the
\* 60 seconds that end with each dispatch).
QuotaRespected == Len(sent) <= 120

\* --------------------------------------------------------------------- C7
\* C7: the window never holds more than 100 entries of the last 60 seconds,
\* and a call that finds 100 or more of them sleeps before it records its
\* own timestamp.
WindowBounded ==
    /\ [](Len(Recent(request_times, now)) <= 100)
    /\ [][ (gpc = "enter" /\ gpc' = "sent"
               /\ Len(Recent(request_times, now)) >= 100)
           => now' > now /\ request_times'[Len(request_times')] = now' ]_vars

\* The window holds 100 entries of the last 60 seconds as a call arrives.
WindowAtThreshold ==
    /\ gpc = "enter"
    /\ Len(Recent(request_times, now)) = 100

\* --------------------------------------------------------------------- C8
\* C8: a wait_if_needed call that finds 100 or more entries younger than 60 s
\* sleeps 60 - (now - oldest) + 1 seconds and clears the window; otherwise,
\* with remaining strictly between 0 and 10, it sleeps 2 seconds; otherwise
\* it does not sleep. In each case the window then ends with one new
\* timestamp, the time the call woke up.
ThreeBranches ==
    [][ (gpc = "enter" /\ gpc' = "sent")
        => LET kept == SelectSeq(request_times, LAMBDA t : now - t < 60)
               slept == now' - now
           IN /\ Len(kept) >= 100
                    => /\ slept = 60 - (now - kept[1]) + 1
                       /\ request_times' = << now' >>
              /\ (Len(kept) < 100 /\ remaining > 0 /\ remaining < 10)
                    => /\ slept = 2
                       /\ request_times' = Append(kept, now')
              /\ (Len(kept) < 100 /\ ~(remaining > 0 /\ remaining < 10))
                    => /\ slept = 0
                       /\ request_times' = Append(kept, now') ]_vars

\* The 101st request found the window full, slept and cleared it; the
\* service has since reported no remaining quota.
ClearedThenZeroRemaining ==
    /\ gov_calls > 101
    /\ remaining = 0
    /\ gpc = "sent"
    /\ Len(request_times) > 1

\* --------------------------------------------------------------------- C9
\* C9 as claimed: when the paging of a collection has stopped, exactly N - 1
\* pages were requested, the Nth page being its first empty one.
AllButEmptyPageRequested ==
    (pc \in {"coll", "done"} /\ coll_idx > 1)
        => Len(requested) = FirstEmpty - 1

\* C9 as amended: the pages of a collection are requested in order from 0,
\* never beyond its first empty page (the Nth); when the paging has stopped,
\* no fetch has raised and N <= 100, exactly N pages were requested, the
\* last of them the empty one.
UpToEmptyPageRequested ==
    requested # << >>
        => /\ requested = [i \in 1..Len(requested) |-> i - 1]
           /\ Len(requested) <= FirstEmpty
           /\ halt = "empty" => Len(requested) = FirstEmpty
           /\ (pc \in {"coll", "done"} /\ halt # "error"
                  /\ FirstEmpty <= 100)
                 => halt = "empty" /\ Len(requested) = FirstEmpty

\* The paging of a collection stopped at its empty second page.
StoppedAtEmptySecondPage ==
    /\ pc = "coll"
    /\ halt = "empty"
    /\ FirstEmpty = 2
    /\ requested = <<0, 1>>

\* -------------------------------------------------------------------- C10
\* C10: at most 100 pages, numbered 0 to 99, are requested of one
\* collection; once page 99 was processed the Processor is done with the
\* collection.
PageCapHolds ==
    /\ Len(requested) <= 100
    /\ \A i \in 1..Len(requested) : requested[i] = i - 1
    /\ pc \in {"fetch", "item", "ai", "put"} => page <= 99
    /\ page > 99 => halt = "limit" /\ pc \in {"coll", "done"}

\* The first collection served items on 100 pages and the next is up.
CapReachedNextCollectionUp ==
    /\ halt = "limit"
    /\ Len(requested) = 100
    /\ pc = "coll"
    /\ coll_idx = 2
    /\ coll_idx <= Len(collection_ids)

\* -------------------------------------------------------------------- C11
\* C11: collections are taken one by one in the order of the ID list; the
\* pages of a collection are requested from page 0 upwards, one by one; the
\* items of a page are taken in the order the page lists them, each reaching
\* its outcome (skipped, success or error) before the next is taken; and a
\* page or a collection is fetched only when every item of the page fetched
\* before it has reached its outcome.
OrderKept ==
    /\ [](pc \in {"coll", "fetch", "done"} => item_pos > Len(items))
    /\ [][ /\ coll_idx' \in {coll_idx, coll_idx + 1}
           /\ (pc = "coll" /\ pc' = "fetch")
                 => page' = 0 /\ requested' = << 0 >>
           /\ page' # page
                 => \/ pc = "coll" /\ page' = 0
                    \/ pc = "item" /\ item_pos > Len(items) /\ page' = page + 1
           /\ (pc = "item" /\ pc' = "fetch")
                 => requested' = Append(requested, page + 1)
           /\ items' # items => pc = "fetch"
           /\ item_pos' # item_pos
                 => \/ pc = "fetch" /\ item_pos' = 1
                    \/ /\ item_pos <= Len(items)
                       /\ item_pos' = item_pos + 1
                       /\ cur'.id = items[item_pos].id
                       /\ cur'.outcome \in {"skipped", "success", "error"} ]_vars

\* Both items of the first collection's page were done before the page of
\* the second collection, whose second item is now done too.
SecondCollectionDoneInOrder ==
    /\ coll_idx = 2
    /\ pc = "item"
    /\ page = 0
    /\ item_pos = 3
    /\ cur.id = 2
    /\ total_raindrops = 4

\* -------------------------------------------------------------------- C12
\* C12: in a dry run no item is ever in the AI call or in the write and no
\* remote tag list changes; the step that takes an item with fewer than 3
\* tags sets the placeholder list tag1, tag2, tag3 as its new tags and adds
\* one to total and one to success.
DryRunCallsNothing ==
    /\ [](dry_run => /\ pc \notin {"ai", "put"}
                     /\ cur.ai = 0 /\ cur.put = 0
                     /\ svc_tags = svc_start)
    /\ [][ (dry_run /\ pc = "item" /\ item_pos <= Len(items)
               /\ Len(items[item_pos].tags) < 3)
           => /\ new_tags' = <<"tag1", "tag2", "tag3">>
              /\ total_raindrops' = total_raindrops + 1
              /\ success_count' = success_count + 1
              /\ error_count' = error_count
              /\ skipped_count' = skipped_count
              /\ pc' = "item" /\ item_pos' = item_pos + 1 ]_vars

\* A dry run has ended after counting an item with two tags as a success.
DryRunSucceeded ==
    /\ dry_run
    /\ pc = "done"
    /\ success_count > 0
    /\ new_tags = <<"tag1", "tag2", "tag3">>
    /\ \E i \in ItemIds : Len(svc_tags[i]) = 2

\* -------------------------------------------------------------------- C13
RECURSIVE PagesListedFrom(_)
\* Non-empty pages the run fetches of the collections from position k on.
PagesListedFrom(k) ==
    IF k > Len(collection_ids) THEN 0
    ELSE (IF svc_pages[collection_ids[k]] > 100 THEN 100
          ELSE svc_pages[collection_ids[k]]) + PagesListedFrom(k + 1)

\* Bookmarks that had 3 or more tags when the run started.
TaggedAtStart == { i \in ItemIds : Len(svc_start[i]) >= 3 }

\* What a simulation counts on the initial contents: every listing of a
\* bookmark with 3 or more tags as skipped, every other listing as a success.
SimulationStatistics ==
    << PagesListedFrom(1) * Cardinality(ItemIds),
       PagesListedFrom(1) * Cardinality(TaggedAtStart),
       PagesListedFrom(1) * Cardinality(ItemIds \ TaggedAtStart),
       0 >>

\* C13 as claimed: a run in which no call fails, simulated or live, returns
\* the statistics a simulation counts on the initial contents.
SameStatisticsAlways ==
    (pc = "done" /\ faults = MaxFaults)
        => << total_raindrops, skipped_count, success_count, error_count >>
              = SimulationStatistics

\* C13 as amended: so it is for every simulation, and for a live run when no
\* bookmark with fewer than 3 tags is listed on more than one fetched page.
SameStatisticsListedOnce ==
    (/\ pc = "done"
     /\ faults = MaxFaults
     /\ \/ dry_run
        \/ TaggedAtStart = ItemIds
        \/ PagesListedFrom(1) <= 1)
        => << total_raindrops, skipped_count, success_count, error_count >>
              = SimulationStatistics

\* A live run has tagged the one untagged bookmark of the one page it found.
LiveRunListedOnce ==
    /\ ~dry_run
    /\ pc = "done"
    /\ faults = MaxFaults
    /\ PagesListedFrom(1) = 1
    /\ success_count = 1
    /\ skipped_count = 1

\* -------------------------------------------------------------------- C14
\* The identifiers of the root list and of the nested list.
RootIdSet == { root_collections[i].id : i \in DOMAIN root_collections }
NestedIdSet == { child_collections[i].id : i \in DOMAIN child_collections }

\* The parent a listed collection names: 0 for a root, for an identifier not
\* listed, and for a nested collection with no usable parent field.
ParentOf(x) ==
    IF x \in NestedIdSet
    THEN (CHOOSE c \in Range(child_collections) : c.id = x).parent.id
    ELSE 0

\* The kth collection up the parent links from x (0 when there is none).
RECURSIVE Up(_, _)
Up(x, k) == IF k = 0 THEN x ELSE ParentOf(Up(x, k - 1))

Descendant(y, x) == \E k \in 1..MaxTreeIds : Up(y, k) = x

Acyclic == \A x \in NestedIdSet : ~Descendant(x, x)

\* The position of an identifier in the flattened list.
Pos(x) == CHOOSE i \in DOMAIN collection_ids : collection_ids[i] = x

\* C14: for an acyclic hierarchy the flattened list is in pre-order: the
\* descendants of a collection follow it directly, in one block (so every
\* collection comes before all of its descendants), the children of one
\* parent come in the order of the nested list, and the roots in the order
\* of the root list.
PreOrder ==
    (mpc = "confirm" /\ Acyclic)
        => LET listed == Range(collection_ids)
           IN /\ \A x \in listed :
                    LET below == { y \in listed : Descendant(y, x) }
                    IN { Pos(y) : y \in below }
                          = (Pos(x) + 1)..(Pos(x) + Cardinality(below))
              /\ \A i, j \in DOMAIN child_collections :
                    (/\ i < j
                     /\ child_collections[i].id \in listed
                     /\ child_collections[j].id \in listed
                     /\ child_collections[i].parent.id
                           = child_collections[j].parent.id)
                       => Pos(child_collections[i].id)
                             < Pos(child_collections[j].id)
              /\ \A i, j \in DOMAIN root_collections :
                    i < j => /\ root_collections[i].id \in listed
                             /\ root_collections[j].id \in listed
                             /\ Pos(root_collections[i].id)
                                   < Pos(root_collections[j].id)

\* The child of the first root is listed before the second root.
ChildBeforeSecondRoot ==
    /\ mpc = "confirm"
    /\ Len(root_collections) = 2
    /\ Len(child_collections) = 1
    /\ collection_ids = << root_collections[1].id, child_collections[1].id,
                           root_collections[2].id >>

\* -------------------------------------------------------------------- C19
\* C19: with unique identifiers the flattened list holds, once each, the
\* roots and the nested collections whose parent links lead to a root, and
\* nothing else: a nested collection with no usable parent, or whose links
\* lead to no root, is not in the list.
ListedAreReachable ==
    mpc = "confirm"
        => /\ \A i, j \in DOMAIN collection_ids :
                 i # j => collection_ids[i] # collection_ids[j]
           /\ Range(collection_ids)
                 = RootIdSet
                   \cup { x \in NestedIdSet :
                             \E k \in 1..MaxTreeIds : Up(x, k) \in RootIdSet }

\* Of two nested collections, the one with no parent is left out, and so is
\* one whose parent is left out.
OrphansLeftOut ==
    /\ mpc = "confirm"
    /\ Len(root_collections) = 1
    /\ Len(child_collections) = 2
    /\ child_collections[1].parent.id = 0
    /\ child_collections[2].parent.id = child_collections[1].id
    /\ collection_ids = << root_collections[1].id >>

\* -------------------------------------------------------------------- C15
\* C15: when the fetch of the root collections or of the nested collections
\* raises, main exits with status 1 at once; a run that has exited with
\* status 1 has requested no item page, taken no item, made no AI call and
\* no write; and after an exit nothing happens. So it is with and without a
\* collection ID on the command line.
FetchFailureIsFatal ==
    /\ [][ (mpc \in {"roots", "children"} /\ call_result' = "raised")
           => mpc' = "exit" /\ exit_status' = 1 ]_vars
    /\ [](exit_status = 1
             => /\ mpc = "exit"
                /\ requested = << >>
                /\ pc = "coll" /\ coll_idx = 1
                /\ total_raindrops = 0
                /\ cur.id = 0 /\ cur.ai = 0 /\ cur.put = 0
                /\ svc_tags = svc_start)
    /\ [][ mpc = "exit" => UNCHANGED vars ]_vars

\* With --collection-id given, the nested fetch was throttled four times
\* after the root fetch had returned, and main has exited with status 1.
NestedFetchFailedWithId ==
    /\ collection_id = 1
    /\ exit_status = 1
    /\ root_collections # << >>
    /\ http_codes = <<429, 429, 429, 429>>

\* -------------------------------------------------------------------- C16
\* C16: merging a proposed list into the result of merging it into an
\* existing list gives the tag set the first merge gave.
MergeIdempotent ==
    mpc = "remerged" => Range(merged_tags) = Range(items[item_pos].tags)

\* A proposal sharing a tag with the existing list was merged twice.
MergedTwiceWithOverlap ==
    /\ mpc = "remerged"
    /\ new_tags = <<"y", "a">>
    /\ Range(merged_tags) = {"x", "y", "a"}

\* -------------------------------------------------------------------- C17
\* C17: a timestamp leaves the window only once it is 60 seconds old: after
\* every step the timestamps of the window that are then younger than 60
\* seconds are still in the window, together and in order.
WindowOnlyDecays ==
    [][ LET young == SelectSeq(request_times, LAMBDA t : now' - t < 60)
        IN \E k \in 0..Len(request_times') :
              /\ k + Len(young) <= Len(request_times')
              /\ \A i \in 1..Len(young) : request_times'[k + i] = young[i] ]_vars

\* -------------------------------------------------------------------- C18
\* C18: when a response's headers have been read, each of limit, remaining
\* and reset holds the header's value if the header was present and an
\* integer, and its value of before otherwise, whatever the other two
\* headers were.
HeadersReadOneByOne ==
    [][ (gpc = "sent" /\ call_result' = "returned")
        => /\ limit' = IF headers'.limit.kind = "int"
                       THEN headers'.limit.value ELSE limit
           /\ remaining' = IF headers'.remaining.kind = "int"
                           THEN headers'.remaining.value ELSE remaining
           /\ reset_time' = IF headers'.reset.kind = "int"
                            THEN headers'.reset.value ELSE reset_time ]_vars

\* -------------------------------------------------------------------- C20
\* C20: between items and at the end total = skipped + success + errors,
\* and while an item is in the AI call or in the write total is one more;
\* a step adds at most one to total, and only by taking an item of the page,
\* adds one to at most one of skipped, success and errors, and lowers no
\* counter.
CountersAddUp ==
    /\ [](total_raindrops
             = skipped_count + success_count + error_count
                  + (IF pc \in {"ai", "put"} THEN 1 ELSE 0))
    /\ [][ /\ total_raindrops' \in {total_raindrops, total_raindrops + 1}
           /\ total_raindrops' # total_raindrops
                 => pc = "item" /\ item_pos <= Len(items)
           /\ skipped_count' >= skipped_count
           /\ success_count' >= success_count
           /\ error_count' >= error_count
           /\ skipped_count' + success_count' + error_count'
                 <= skipped_count + success_count + error_count + 1 ]_vars

\* A run has ended with items skipped, tagged and failed.
EveryOutcomeCounted ==
    /\ pc = "done"
    /\ skipped_count > 0
    /\ success_count > 0
    /\ error_count > 0

\* -------------------------------------------------------------------- C21
\* C21: when a page fetch raises (a failure other than 429, or a fourth 429)
\* the step changes none of the four counters and no remote tag list,
\* requests no page, and leaves the collection; the Processor then requests
\* page 0 of the next collection of the list, or returns when there is none.
FetchFailureLeavesCollection ==
    /\ [][ (pc = "fetch" /\ call_result' = "raised")
           => /\ total_raindrops' = total_raindrops
              /\ success_count' = success_count
              /\ error_count' = error_count
              /\ skipped_count' = skipped_count
              /\ svc_tags' = svc_tags
              /\ requested' = requested
              /\ halt' = "error"
              /\ pc' = "coll"
              /\ coll_idx' = coll_idx + 1 ]_vars
    /\ [][ (pc = "coll" /\ halt = "error")
           => IF coll_idx <= Len(collection_ids)
              THEN /\ pc' = "fetch"
                   /\ coll_idx' = coll_idx
                   /\ page' = 0
                   /\ requested' = << 0 >>
              ELSE pc' = "done" ]_vars

\* The fetch of the second page of the first collection was throttled four
\* times; its two items are counted and the second collection is up.
SecondPageFetchFailed ==
    /\ pc = "coll"
    /\ halt = "error"
    /\ http_codes = <<429, 429, 429, 429>>
    /\ requested = <<0, 1>>
    /\ coll_idx = 2
    /\ coll_idx <= Len(collection_ids)
    /\ total_raindrops = 2
    /\ error_count = 0

\* -------------------------------------------------------------------- C22
\* What wait_if_needed sleeps on a window of 100 timestamps whose oldest is
\* `age` seconds old, on a shorter window, and with each kind of remaining
\* quota: at most 61 seconds.
GovernorSleepsBounded ==
    \A age \in 0..59, rem \in {0, 5, 120} :
        /\ GovernorSleep([i \in 1..100 |-> IF i = 1 THEN 0 ELSE age], rem, age)
              = 61 - age
        /\ GovernorSleep([i \in 1..99 |-> age], rem, age) \in {0, 2}

\* C22: process_raindrops returns, whatever the services do: however the
\* calls are throttled or failed and however many pages a collection serves.
\* On the way one logical call is dispatched at most 4 times, one collection
\* gets at most 100 page requests, one item at most one AI call and one
\* logical write, a backoff sleep is of 10, 20 or 40 seconds and a governor
\* sleep of at most 61.
Terminates ==
    /\ GovernorSleepsBounded
    /\ [](/\ Len(http_codes) + (IF call_result = "pending" THEN 1 ELSE 0) <= 4
          /\ Len(requested) <= 100
          /\ cur.ai <= 1 /\ cur.put <= 1
          /\ \A i \in 1..Len(sleeps) : sleeps[i] \in {10, 20, 40})
    /\ <>(pc = "done")

\* A run has returned after a collection that served items on all of its
\* 100 pages and a call that was throttled four times.
ReturnedAfterLongRun ==
    /\ pc = "done"
    /\ \E c \in CollIds : svc_pages[c] >= 100
    /\ http_codes = <<429, 429, 429, 429>>

====
